---- MODULE Spec2Model ----
(***************************************************************************)
(* The push-notification service worker of sw.js.                          *)
(*                                                                         *)
(* The script registers one listener for "push".  The listener reads the   *)
(* event's data (JSON text, or nothing), asks the platform to display a    *)
(* notification and hands the pending result to event.waitUntil.           *)
(*                                                                         *)
(* JavaScript runs a listener to completion, so one dispatch of one event  *)
(* is one action.  The display promise settles later, in a step of the     *)
(* platform.                                                               *)
(***************************************************************************)
EXTENDS Integers, Sequences, FiniteSets, TLC

VARIABLES
    loaded,         \* the script has been evaluated in the worker's global scope
    listeners,      \* event types of the listeners registered on self, in order
    events,         \* the push events dispatched so far, in order
    notifications   \* the showNotification calls made so far, in order

vars == <<loaded, listeners, events, notifications>>

\* The number of push events one run delivers.
MaxEvents == 2

(***************************************************************************)
(* JavaScript values.  Every value is a record [t, v]: t is the type tag,  *)
(* v the content (a string for a scalar, a function from member names to   *)
(* values for an object, a sequence of values for an array).               *)
(***************************************************************************)
Undefined == [t |-> "undefined", v |-> ""]

Null == [t |-> "null", v |-> ""]

Str(s) == [t |-> "string", v |-> s]

Lit(s) == [t |-> IF s \in {"true", "false"} THEN "boolean" ELSE "number", v |-> s]

Obj(m) == [t |-> "object", v |-> m]

Arr(xs) == [t |-> "array", v |-> xs]

\* The object with no members.
NoMembers == [k \in {} |-> Undefined]

\* The members m with member k set to x (a later duplicate key replaces an earlier one).
SetMember(m, k, x) == [j \in DOMAIN m \cup {k} |-> IF j = k THEN x ELSE m[j]]

(***************************************************************************)
(* JSON text, as the sequence of its tokens.  A token is [k, v]: k is one  *)
(* of the punctuation marks, "string" (v is the content) or "literal" (v   *)
(* is null, true, false or a number's digits).                             *)
(***************************************************************************)
P(c) == [k |-> c, v |-> ""]

S(s) == [k |-> "string", v |-> s]

L(s) == [k |-> "literal", v |-> s]

\* The result of a parse step: the value read and the tokens after it, or a failure.
ParseOk(x, rest) == [ok |-> TRUE, val |-> x, rest |-> rest]

ParseFail == [ok |-> FALSE, val |-> Undefined, rest |-> <<>>]

RECURSIVE ParseValue(_), ParseMembers(_, _), ParseElements(_, _)

\* value := string | literal | "{" members "}" | "[" elements "]"
ParseValue(ts) ==
    IF ts = <<>> THEN ParseFail
    ELSE LET h == Head(ts)
             r == Tail(ts)
         IN  CASE h.k = "string" -> ParseOk(Str(h.v), r)
               [] h.k = "literal" ->
                    ParseOk(IF h.v = "null" THEN Null ELSE Lit(h.v), r)
               [] h.k = "{" ->
                    IF r # <<>> /\ Head(r).k = "}"
                    THEN ParseOk(Obj(NoMembers), Tail(r))
                    ELSE ParseMembers(r, NoMembers)
               [] h.k = "[" ->
                    IF r # <<>> /\ Head(r).k = "]"
                    THEN ParseOk(Arr(<<>>), Tail(r))
                    ELSE ParseElements(r, <<>>)
               [] OTHER -> ParseFail

\* members := string ":" value ( "," members | "}" ), read into m
ParseMembers(ts, m) ==
    IF Len(ts) < 2 \/ ts[1].k # "string" \/ ts[2].k # ":" THEN ParseFail
    ELSE LET x == ParseValue(SubSeq(ts, 3, Len(ts)))
         IN  IF ~x.ok \/ x.rest = <<>> THEN ParseFail
             ELSE LET m2 == SetMember(m, ts[1].v, x.val)
                      sep == Head(x.rest).k
                  IN  CASE sep = "}" -> ParseOk(Obj(m2), Tail(x.rest))
                        [] sep = "," -> ParseMembers(Tail(x.rest), m2)
                        [] OTHER -> ParseFail

\* elements := value ( "," elements | "]" ), read into xs
ParseElements(ts, xs) ==
    LET x == ParseValue(ts)
    IN  IF ~x.ok \/ x.rest = <<>> THEN ParseFail
        ELSE LET xs2 == Append(xs, x.val)
                 sep == Head(x.rest).k
             IN  CASE sep = "]" -> ParseOk(Arr(xs2), Tail(x.rest))
                   [] sep = "," -> ParseElements(Tail(x.rest), xs2)
                   [] OTHER -> ParseFail

\* event.data.json(): the value of the whole text, or a SyntaxError.
json(text) ==
    LET r == ParseValue(text)
    IN  IF r.ok /\ r.rest = <<>>
        THEN [threw |-> FALSE, val |-> r.val]
        ELSE [threw |-> TRUE, val |-> Undefined]

\* x.k as JavaScript evaluates it: a TypeError on null and undefined, the member of
\* an object that has it, undefined otherwise.
GetProp(x, k) ==
    IF x.t \in {"null", "undefined"} THEN [threw |-> TRUE, val |-> Undefined]
    ELSE IF x.t = "object" /\ k \in DOMAIN x.v THEN [threw |-> FALSE, val |-> x.v[k]]
    ELSE [threw |-> FALSE, val |-> Undefined]

(***************************************************************************)
(* The listener of sw.js.                                                  *)
(***************************************************************************)
\* DefaultPayload with the two strings exchanged.
DefaultPayloadSwapped ==
    Obj([title |-> Str("\\u6CA1\\u6709\\u6D88\\u606F\\u5185\\u5BB9"),
         body |-> Str("\\u9ED8\\u8BA4\\u6807\\u9898")])

\* The payload used when the event carries no data.  The two strings are written by
\* their code points: "default title" and "no message content" in Chinese.
DefaultPayload ==
    Obj([title |-> Str("\\u9ED8\\u8BA4\\u6807\\u9898"),
         body |-> Str("\\u6CA1\\u6709\\u6D88\\u606F\\u5185\\u5BB9")])

\* ReadData with the parse wrapped in try/catch: a failed parse yields the fallback.
ReadDataCatch(data) ==
    IF data # <<>> /\ ~json(data[1]).threw
    THEN [threw |-> FALSE, val |-> json(data[1]).val, jsonCalls |-> 1, fallback |-> FALSE]
    ELSE [threw |-> FALSE, val |-> DefaultPayload,
          jsonCalls |-> Len(data), fallback |-> TRUE]

\* const data = event.data ? event.data.json() : { ... }.  data is <<>> for an event
\* without data and <<text>> for one with data.  jsonCalls counts the calls of json.
ReadData(data) ==
    IF data # <<>>
    THEN LET r == json(data[1])
         IN  [threw |-> r.threw, val |-> r.val, jsonCalls |-> 1, fallback |-> FALSE]
    ELSE [threw |-> FALSE, val |-> DefaultPayload, jsonCalls |-> 0, fallback |-> TRUE]

\* ShowArgs with the heading and the body exchanged.
ShowArgsSwapped(d) ==
    LET title == GetProp(d, "title")
        body == GetProp(d, "body")
    IN  [threw |-> title.threw \/ body.threw,
         title |-> body.val,
         options |-> [body |-> title.val, icon |-> Str("/icon.png")]]

\* ShowArgs without the body option.
ShowArgsNoBody(d) ==
    LET title == GetProp(d, "title")
    IN  [threw |-> title.threw,
         title |-> title.val,
         options |-> [body |-> Undefined, icon |-> Str("/icon.png")]]

\* ShowArgs with a fallback per field: data.title || ..., data.body || ...
ShowArgsFieldFallback(d) ==
    LET title == GetProp(d, "title")
        body == GetProp(d, "body")
        Or(x, k) == IF x.val.t \in {"undefined", "null"} THEN DefaultPayload.v[k] ELSE x.val
    IN  [threw |-> title.threw \/ body.threw,
         title |-> Or(title, "title"),
         options |-> [body |-> Or(body, "body"), icon |-> Str("/icon.png")]]

\* The arguments of showNotification, evaluated left to right: data.title, then the
\* options object with data.body and the icon.
ShowArgs(d) ==
    LET title == GetProp(d, "title")
        body == GetProp(d, "body")
    IN  [threw |-> title.threw \/ body.threw,
         title |-> title.val,
         options |-> [body |-> body.val, icon |-> Str("/icon.png")]]

\* What one run of the listener does: how it ends, the showNotification calls it
\* makes (their arguments) and the promises it passes to event.waitUntil.  A promise
\* is [call, caught]: the result of the call-th showNotification call, as returned
\* (caught = FALSE) or behind a rejection handler (caught = TRUE).
NoShow(outcome, r) ==
    [outcome |-> outcome, jsonCalls |-> r.jsonCalls, fallback |-> r.fallback,
     calls |-> <<>>, waitUntil |-> <<>>]

\* PushHandler without event.waitUntil: showNotification is called and its result dropped.
PushHandlerNoWait(data) ==
    LET r == ReadData(data)
    IN  IF r.threw THEN NoShow("SyntaxError", r)
        ELSE LET a == ShowArgs(r.val)
             IN  IF a.threw THEN NoShow("TypeError", r)
                 ELSE [outcome |-> "returned",
                       jsonCalls |-> r.jsonCalls,
                       fallback |-> r.fallback,
                       calls |-> <<[title |-> a.title, options |-> a.options]>>,
                       waitUntil |-> <<>>]

\* PushHandler with waitUntil(showNotification(...).catch(...)).
PushHandlerCaught(data) ==
    LET h == PushHandlerNoWait(data)
    IN  [h EXCEPT !.waitUntil = [i \in 1..Len(h.calls) |-> [call |-> i, caught |-> TRUE]]]

\* PushHandler showing the notification twice, waiting for the second.
PushHandlerTwice(data) ==
    LET h == PushHandlerNoWait(data)
    IN  [h EXCEPT !.calls = h.calls \o h.calls,
                  !.waitUntil = [i \in 1..Len(h.calls) |-> [call |-> 2, caught |-> FALSE]]]

\* PushHandler that shows nothing for data an earlier event has carried.
PushHandlerDedup(data) ==
    LET h == PushHandlerNoWait(data)
    IN  IF \E e \in 1..Len(events) : events[e].data = data
        THEN [h EXCEPT !.calls = <<>>]
        ELSE [h EXCEPT !.waitUntil = [i \in 1..Len(h.calls) |-> [call |-> i, caught |-> FALSE]]]

PushHandler(data) ==
    LET r == ReadData(data)
    IN  IF r.threw THEN NoShow("SyntaxError", r)
        ELSE LET a == ShowArgs(r.val)
             IN  IF a.threw THEN NoShow("TypeError", r)
                 ELSE [outcome |-> "returned",
                       jsonCalls |-> r.jsonCalls,
                       fallback |-> r.fallback,
                       calls |-> <<[title |-> a.title, options |-> a.options]>>,
                       waitUntil |-> <<[call |-> 1, caught |-> FALSE]>>]

\* AddEventListener run twice for the same event type.
AddEventListenerTwice(ls) == Append(Append(ls, "push"), "push")

\* self.addEventListener('push', ...): the listeners with this one added.
AddEventListener(ls) == Append(ls, "push")

(***************************************************************************)
(* The platform around the listener.                                       *)
(***************************************************************************)
\* The data a push event may carry: none, or one of these texts.
ObjectText(t, b) ==
    <<P("{"), S("title"), P(":"), t, P(","), S("body"), P(":"), b, P("}")>>

Texts ==
    { ObjectText(S("Meeting"), S("Starts in 5 minutes")),
      ObjectText(S("Starts in 5 minutes"), S("Meeting")),
      ObjectText(L("5"), L("null")),
      <<P("{"), S("body"), P(":"), S("b"), P(","), S("title"), P(":"), S("t"),
        P(","), S("tag"), P(":"), P("["), L("1"), P(","), L("2"), P("]"), P("}")>>,
      <<P("{"), S("title"), P(":"), S("Meeting"), P("}")>>,
      <<P("{"), S("body"), P(":"), S("Starts in 5 minutes"), P("}")>>,
      <<P("{"), S("title"), P(":"), S("a"), P(","), S("title"), P(":"), S("b"), P("}")>>,
      <<P("{"), S("title"), P(":"), P("{"), S("body"), P(":"), S("x"), P("}"), P("}")>>,
      <<P("{"), P("}")>>,
      <<L("null")>>,
      <<L("42")>>,
      <<S("Meeting")>>,
      <<P("["), S("title"), P("]")>>,
      <<>>,
      <<P("{"), S("title"), P(":"), S("Meeting")>>,
      <<P("{"), S("title"), S("Meeting"), P("}")>>,
      <<P("{"), S("title"), P(":"), S("Meeting"), P(","), P("}")>>,
      <<S("title"), P(":"), S("Meeting")>> }

EventData == {<<>>} \cup {<<t>> : t \in Texts}

\* The push listeners among ls.
PushListeners(ls) == SelectSeq(ls, LAMBDA t : t = "push")

\* The state of the promise p = [call, caught] passed to waitUntil, given the
\* showNotification calls ns: a rejection handler turns a rejection into fulfilment.
PromiseState(p, ns) ==
    IF p.caught /\ ns[p.call].state = "rejected" THEN "fulfilled" ELSE ns[p.call].state

\* The event's lifetime is extended while a promise passed to waitUntil is pending.
Active(extend, ns) == \E i \in 1..Len(extend) : PromiseState(extend[i], ns) = "pending"

Init ==
    /\ loaded = FALSE
    /\ listeners = <<>>
    /\ events = <<>>
    /\ notifications = <<>>

\* The worker evaluates the script: line 1 registers the listener.
Load ==
    /\ ~loaded
    /\ loaded' = TRUE
    /\ listeners' = AddEventListener(listeners)
    /\ UNCHANGED <<events, notifications>>

\* The platform dispatches a push event carrying data: every push listener runs to
\* completion, in order.  The event records what its listeners did; each
\* showNotification call is added, pending, to notifications.
Push(data) ==
    /\ loaded
    /\ Len(events) < MaxEvents
    /\ LET n == Len(PushListeners(listeners))
           h == PushHandler(data)
           k == Len(h.calls)
           w == Len(h.waitUntil)
           base == Len(notifications)
           e == Len(events) + 1
           shown == [j \in 1..(n * k) |->
                        [event |-> e,
                         title |-> h.calls[((j - 1) % k) + 1].title,
                         options |-> h.calls[((j - 1) % k) + 1].options,
                         state |-> "pending"]]
           extend == [j \in 1..(n * w) |->
                        [call |-> base + ((j - 1) \div w) * k + h.waitUntil[((j - 1) % w) + 1].call,
                         caught |-> h.waitUntil[((j - 1) % w) + 1].caught]]
       IN  /\ notifications' = notifications \o shown
           /\ events' = Append(events,
                  [data |-> data,
                   runs |-> n,
                   outcome |-> IF n = 0 THEN "none" ELSE h.outcome,
                   jsonCalls |-> n * h.jsonCalls,
                   fallback |-> n > 0 /\ h.fallback,
                   shown |-> [j \in 1..(n * k) |-> base + j],
                   extend |-> extend,
                   active |-> Active(extend, notifications \o shown)])
    /\ UNCHANGED <<loaded, listeners>>

\* The platform settles the c-th showNotification call: the notification is shown
\* (fulfilled) or the display fails (rejected).  The lifetime of the event that
\* waits for it ends when none of its promises is pending any more.
Settle(c, s) ==
    /\ c \in 1..Len(notifications)
    /\ notifications[c].state = "pending"
    /\ notifications' = [notifications EXCEPT ![c].state = s]
    /\ events' = [e \in 1..Len(events) |->
                    [events[e] EXCEPT !.active = Active(events[e].extend, notifications')]]
    /\ UNCHANGED <<loaded, listeners>>

Next ==
    \/ Load
    \/ \E data \in EventData : Push(data)
    \/ \E c \in 1..Len(notifications) : Settle(c, "fulfilled")
    \/ \E c \in 1..Len(notifications) : Settle(c, "rejected")

Spec == Init /\ [][Next]_vars

(***************************************************************************)
(* Properties.                                                             *)
(***************************************************************************)
Event == 1..Len(events)

\* The showNotification calls made for event e.
CallsOf(e) == {c \in 1..Len(notifications) : notifications[c].event = e}

\* Event e carries data that parses, and Parsed(e) is its value.
Carries(e) == events[e].data # <<>>

Parses(e) == Carries(e) /\ ~json(events[e].data[1]).threw

Parsed(e) == json(events[e].data[1]).val

\* Event e carries a JSON object that has every member of ks.
HasMembers(e, ks) == Parses(e) /\ Parsed(e).t = "object" /\ ks \subseteq DOMAIN Parsed(e).v

\* The one showNotification call of event e.
TheCall(e) == notifications[events[e].shown[1]]

Icon == Str("/icon.png")

MeetingText == ObjectText(S("Meeting"), S("Starts in 5 minutes"))

\* C1: an event whose data parses as an object with title T and body B gets one
\* display call, with heading T and options body = B, icon = "/icon.png"; the text
\* {"title":"Meeting","body":"Starts in 5 minutes"} shows "Meeting" with the body
\* "Starts in 5 minutes".
C1_ExactPayloadDisplayed ==
    \A e \in Event :
        /\ HasMembers(e, {"title", "body"}) =>
              /\ Len(events[e].shown) = 1
              /\ TheCall(e).title = Parsed(e).v["title"]
              /\ TheCall(e).options = [body |-> Parsed(e).v["body"], icon |-> Icon]
        /\ events[e].data = <<MeetingText>> =>
              /\ Len(events[e].shown) = 1
              /\ TheCall(e).title = Str("Meeting")
              /\ TheCall(e).options = [body |-> Str("Starts in 5 minutes"), icon |-> Icon]

C1_Witness ==
    \E e \in Event :
        /\ events[e].data = <<MeetingText>>
        /\ HasMembers(e, {"title", "body"})
        /\ events[e].shown # <<>>

\* C2: an event without data gets one display call, with the fallback title, the
\* fallback body and icon "/icon.png", and json is never called for it.
C2_MissingPayloadFallback ==
    \A e \in Event :
        ~Carries(e) =>
            /\ Len(events[e].shown) = 1
            /\ TheCall(e).title = Str("\\u9ED8\\u8BA4\\u6807\\u9898")
            /\ TheCall(e).options =
                  [body |-> Str("\\u6CA1\\u6709\\u6D88\\u606F\\u5185\\u5BB9"), icon |-> Icon]
            /\ events[e].jsonCalls = 0

C2_Witness == \E e \in Event : ~Carries(e) /\ events[e].shown # <<>>

\* C3, as stated: in every display call the title argument and the body option are
\* both defined, whatever the event's data was.
C3_AlwaysFullyPopulated ==
    \A c \in 1..Len(notifications) :
        /\ notifications[c].title # Undefined
        /\ notifications[c].options.body # Undefined

\* C3, amended: for an event without data, or with data that parses as an object
\* having both a title and a body member, the display call is made with the title
\* argument and the body option both defined.
C3_PopulatedWhenBothGiven ==
    \A e \in Event :
        (~Carries(e) \/ HasMembers(e, {"title", "body"})) =>
            /\ Len(events[e].shown) = 1
            /\ TheCall(e).title # Undefined
            /\ TheCall(e).options.body # Undefined

C3_Witness ==
    /\ \E e \in Event : HasMembers(e, {"title", "body"}) /\ events[e].shown # <<>>
    /\ \E e \in Event : ~Carries(e) /\ events[e].shown # <<>>

\* C4: for data that parses as an object with a title and no body, the display call
\* has that title and an undefined body, not the fallback body (and likewise an
\* undefined title for an object without title); the fallback payload is used
\* exactly by the events without data.
C4_NoPerFieldFallback ==
    \A e \in Event :
        /\ (HasMembers(e, {"title"}) /\ ~HasMembers(e, {"body"})) =>
              /\ Len(events[e].shown) = 1
              /\ TheCall(e).title = Parsed(e).v["title"]
              /\ TheCall(e).options.body = Undefined
              /\ TheCall(e).options.body # DefaultPayload.v["body"]
        /\ (HasMembers(e, {}) /\ ~HasMembers(e, {"title"})) =>
              /\ Len(events[e].shown) = 1
              /\ TheCall(e).title = Undefined
        /\ events[e].fallback <=> ~Carries(e)

C4_Witness ==
    \E e \in Event :
        /\ events[e].data = << <<P("{"), S("title"), P(":"), S("Meeting"), P("}")>> >>
        /\ HasMembers(e, {"title"})
        /\ ~HasMembers(e, {"body"})
        /\ events[e].shown # <<>>

\* C5, as stated: an event gets at most one display call, and exactly one when its
\* data is absent or parses.
C5_ExactlyOnceWhenParsed ==
    \A e \in Event :
        /\ Cardinality(CallsOf(e)) <= 1
        /\ (~Carries(e) \/ Parses(e)) => Cardinality(CallsOf(e)) = 1

\* C5, amended: an event gets at most one display call, and exactly one when its
\* data is absent or parses as a value other than null.
C5_AtMostOnce ==
    \A e \in Event :
        /\ Cardinality(CallsOf(e)) <= 1
        /\ CallsOf(e) = {events[e].shown[i] : i \in 1..Len(events[e].shown)}
        /\ (~Carries(e) \/ (Parses(e) /\ Parsed(e) # Null)) => Cardinality(CallsOf(e)) = 1

C5_Witness ==
    /\ Len(events) = MaxEvents
    /\ \A e \in Event : Cardinality(CallsOf(e)) = 1
    /\ \E e \in Event : Parses(e)
    /\ \E c \in 1..Len(notifications) : notifications[c].state = "rejected"

\* C6: for every display call of an event, waitUntil was given the result of that
\* call; the event's lifetime lasts while the call is pending and is over once it
\* has settled.
C6_AliveUntilSettled ==
    \A e \in Event :
        \A c \in CallsOf(e) :
            /\ \E i \in 1..Len(events[e].extend) : events[e].extend[i].call = c
            /\ notifications[c].state = "pending" => events[e].active
            /\ notifications[c].state # "pending" => ~events[e].active

C6_Witness ==
    /\ \E e \in Event : \E c \in CallsOf(e) :
           notifications[c].state = "pending" /\ events[e].active
    /\ \E e \in Event : \E c \in CallsOf(e) :
           notifications[c].state = "fulfilled" /\ ~events[e].active

UnclosedText == <<P("{"), S("title"), P(":"), S("Meeting")>>

\* C7: an event whose data is not valid JSON (such as the unclosed {"title":"Meeting")
\* ends the listener with the parse error: no fallback payload, no display call and
\* no waitUntil.
C7_ParseFailurePropagates ==
    \A e \in Event :
        ((Carries(e) /\ ~Parses(e)) \/ events[e].data = <<UnclosedText>>) =>
            /\ events[e].outcome = "SyntaxError"
            /\ ~events[e].fallback
            /\ events[e].shown = <<>>
            /\ CallsOf(e) = {}
            /\ events[e].extend = <<>>
            /\ ~events[e].active

C7_Witness ==
    \E e \in Event :
        /\ events[e].data = <<UnclosedText>>
        /\ ~Parses(e)
        /\ events[e].runs = 1

\* C8: when the display call of an event is rejected, the promise given to waitUntil
\* is that call's own result, so it is rejected too; the event has no other display
\* call and its lifetime is over.
C8_DisplayFailureNotIntercepted ==
    \A e \in Event :
        \A c \in CallsOf(e) :
            notifications[c].state = "rejected" =>
                /\ events[e].extend = <<[call |-> c, caught |-> FALSE]>>
                /\ PromiseState(events[e].extend[1], notifications) = "rejected"
                /\ CallsOf(e) = {c}
                /\ events[e].outcome = "returned"
                /\ ~events[e].active

C8_Witness ==
    \E e \in Event : \E c \in CallsOf(e) : notifications[c].state = "rejected"

\* C9: once the script is loaded, exactly one push listener is registered, however
\* many events have been handled, and every event was run by exactly one listener.
C9_OneRegistration ==
    /\ Len(PushListeners(listeners)) = (IF loaded THEN 1 ELSE 0)
    /\ Len(listeners) = Len(PushListeners(listeners))
    /\ \A e \in Event : events[e].runs = 1

C9_Witness ==
    /\ loaded
    /\ Len(events) = MaxEvents
    /\ Len(PushListeners(listeners)) = 1

\* The arguments of the display calls of event e, in order.
ArgsOf(e) ==
    [i \in 1..Len(events[e].shown) |->
        [title |-> notifications[events[e].shown[i]].title,
         options |-> notifications[events[e].shown[i]].options]]

====
